---- MODULE Spec2Model ----
(***************************************************************************)
(* Model of the three product-enrichment scripts:                          *)
(*   "barra"   src/api/update-products-barra.js  (batch: description and   *)
(*             barcodes)                                                   *)
(*   "desc"    src/unnamed/part_000              (batch: description only) *)
(*   "webhook" src/unnamed/part_001              (one product per POST)    *)
(* Strings are sequences: barcodes are sequences of decimal digits, tags   *)
(* and descriptions are sequences of one-character strings.                *)
(***************************************************************************)
EXTENDS Integers, Sequences, FiniteSets, TLC

VARIABLES
    script,            \* which of the three programs runs
    catalog,           \* the products the commerce API holds (batch input)
    pc,                \* position of the running program
    url,               \* fetchAllProducts: page to request next, 0 = null
    allProducts,       \* fetchAllProducts: products collected so far
    existingBarcodes,  \* updateProducts: the Set of used barcodes
    productIndex,      \* updateProducts: loop index (0-based, as in the code)
    updatedVariants,   \* entries {id, barcode} built for the current product
    updated,           \* updateProducts: titles (ids) of the updated products
    barcodesGenerated, \* counter of generated barcodes
    call,              \* the shopifyFetch activation in progress
    requests,          \* every shopifyFetch call issued, in order
    failedPuts,        \* batch: indexes of the products whose PUT failed
    stopCause,         \* batch: what ended the run
    product,           \* webhook: the product of the delivery being handled
    delivered,         \* webhook: number of deliveries received
    variantPos,        \* webhook: position in the single-variant fallback loop
    variantsUpdated,   \* webhook: counter of the fallback loop
    answer,            \* webhook: the handler's last answer
    assigned,          \* webhook: <<productId, index, barcode>> of every code
    event,             \* webhook: method, secret and header of the delivery
    accepted,          \* positions in requests of the calls the API answered ok
    gen                \* generator harness: [productId, index, out]

vars == <<script, catalog, pc, url, allProducts, existingBarcodes, productIndex,
          updatedVariants, updated, barcodesGenerated, call, requests,
          failedPuts, stopCause, product, delivered, variantPos,
          variantsUpdated, answer, assigned, event, accepted, gen>>

-----------------------------------------------------------------------------
(* Bounds of the model *)

MaxProducts == 2
MaxDeliveries == 2
FillerCount == 10
PageSize == 2

(* Program constants *)

BatchRetries == 5
BarraSleepMs == 500
DescSleepMs == 300
WebhookRetries == 3
maxAttempts == 100
IdDigits == 6
IndexDigits == 3

-----------------------------------------------------------------------------
(* String helpers of JavaScript used by the code *)

RECURSIVE DecString(_)
\* String(n) of a non-negative integer below 10^21: its decimal digits
DecString(n) == IF n < 10 THEN <<n>> ELSE DecString(n \div 10) \o <<n % 10>>

\* s.padStart(n, c)
PadStart(s, n, c) ==
    IF Len(s) >= n THEN s ELSE [k \in 1..(n - Len(s)) |-> c] \o s

\* s.slice(-n)
SliceLast(s, n) ==
    IF Len(s) <= n THEN s ELSE SubSeq(s, Len(s) - n + 1, Len(s))

RECURSIVE WeightedSum(_, _)
\* the loop "for (i = 0; i < 12; i++) sum += i % 2 === 0 ? digit : digit * 3",
\* WeightedSum(code, n) is sum after the iterations i = 0..n-1
WeightedSum(code, n) ==
    IF n = 0 THEN 0
    ELSE WeightedSum(code, n - 1)
         + (IF (n - 1) % 2 = 0 THEN code[n] ELSE code[n] * 3)

\* the generator without the final "% 10" of the check digit
generateUniqueBarcode_NoWrap(productId, index) ==
    LET baseCode == <<2, 0, 0>>
                    \o SliceLast(PadStart(DecString(productId), IdDigits, 0), IdDigits)
                    \o PadStart(DecString(index), IndexDigits, 0)
        sum == WeightedSum(baseCode, 12)
        checkDigit == 10 - (sum % 10)
    IN  baseCode \o <<checkDigit>>

generateUniqueBarcode(productId, index) ==
    LET baseCode == <<2, 0, 0>>
                    \o SliceLast(PadStart(DecString(productId), IdDigits, 0), IdDigits)
                    \o PadStart(DecString(index), IndexDigits, 0)
        sum == WeightedSum(baseCode, 12)
        checkDigit == (10 - (sum % 10)) % 10
    IN  baseCode \o <<checkDigit>>

-----------------------------------------------------------------------------
(* Tag matching: product.tags.split(",").map(t => t.trim().toLowerCase())  *)
(* followed by tags.find(t => [...].includes(t))                           *)

UpperCase == <<"A", "B", "C", "D", "E", "F", "G", "H", "I", "J", "K", "L", "M", "N", "O", "P", "Q", "R", "S", "T", "U", "V", "W", "X", "Y", "Z">>
LowerCase == <<"a", "b", "c", "d", "e", "f", "g", "h", "i", "j", "k", "l", "m", "n", "o", "p", "q", "r", "s", "t", "u", "v", "w", "x", "y", "z">>

\* c.toLowerCase() of one character
LowerChar(c) ==
    IF \E k \in 1..Len(UpperCase) : UpperCase[k] = c
    THEN LowerCase[CHOOSE k \in 1..Len(UpperCase) : UpperCase[k] = c]
    ELSE c

toLowerCase(s) == [k \in 1..Len(s) |-> LowerChar(s[k])]

RECURSIVE trimStart(_)
trimStart(s) ==
    IF s # <<>> /\ Head(s) = " " THEN trimStart(Tail(s)) ELSE s

RECURSIVE trimEnd(_)
trimEnd(s) ==
    IF s # <<>> /\ s[Len(s)] = " " THEN trimEnd(SubSeq(s, 1, Len(s) - 1)) ELSE s

trim(s) == trimEnd(trimStart(s))

RECURSIVE split(_, _)
\* s.split(sep) for a one-character separator: "" splits into one empty piece
split(s, sep) ==
    IF \E k \in 1..Len(s) : s[k] = sep
    THEN LET k == CHOOSE j \in 1..Len(s) :
                      s[j] = sep /\ \A h \in 1..(j - 1) : s[h] # sep
         IN  <<SubSeq(s, 1, k - 1)>> \o split(SubSeq(s, k + 1, Len(s)), sep)
    ELSE <<s>>

\* the array literal of updateProducts (both batch scripts)
BatchCategories == <<
    <<"a", "l", "l", "-", "j", "u", "m", "p", "e", "r", "s">>,
    <<"w", "a", "t", "e", "r", "-", "s", "l", "i", "d", "e", "s">>,
    <<"c", "o", "m", "b", "o", "s", "-", "w", "e", "t", "-", "d", "r", "y">>,
    <<"c", "o", "m", "b", "o", "s", " ", "w", "e", "t", "/", "d", "r", "y">>,
    <<"i", "n", "t", "e", "r", "a", "c", "t", "i", "v", "e", "s">>,
    <<"o", "b", "s", "t", "a", "c", "l", "e", " ", "c", "o", "u", "r", "s", "e", "s">>,
    <<"O", "b", "s", "t", "a", "c", "l", "e", " ", "C", "o", "u", "r", "s", "e", "s">>,
    <<"s", "l", "i", "d", "e", " ", "c", "o", "m", "b", "o", "s">>,
    <<"S", "l", "i", "d", "e", " ", "C", "o", "m", "b", "o", "s">> >>

\* the array literal of generateProductDescription (webhook function)
WebhookCategories == <<
    <<"a", "l", "l", "-", "j", "u", "m", "p", "e", "r", "s">>,
    <<"w", "a", "t", "e", "r", "-", "s", "l", "i", "d", "e", "s">>,
    <<"c", "o", "m", "b", "o", "s", "-", "w", "e", "t", "-", "d", "r", "y">>,
    <<"c", "o", "m", "b", "o", "s", " ", "w", "e", "t", "/", "d", "r", "y">>,
    <<"i", "n", "t", "e", "r", "a", "c", "t", "i", "v", "e", "s">>,
    <<"o", "b", "s", "t", "a", "c", "l", "e", " ", "c", "o", "u", "r", "s", "e", "s">>,
    <<"s", "l", "i", "d", "e", " ", "c", "o", "m", "b", "o", "s">> >>

includes(list, t) == \E k \in 1..Len(list) : list[k] = t

\* the tags array of a product
TagList(tags) ==
    LET parts == split(tags, ",")
    IN  [k \in 1..Len(parts) |-> toLowerCase(trim(parts[k]))]

\* tags.find without the test of the category list: the first tag
tagMatch_First(tags, categories) ==
    LET list == TagList(tags)
    IN  list[1]

\* tags.find(...): the first tag of the category list, <<>> for undefined
tagMatch(tags, categories) ==
    LET list == TagList(tags)
    IN  IF \E k \in 1..Len(list) : includes(categories, list[k])
        THEN list[CHOOSE k \in 1..Len(list) :
                      /\ includes(categories, list[k])
                      /\ \A h \in 1..(k - 1) : ~includes(categories, list[h])]
        ELSE <<>>

-----------------------------------------------------------------------------
(* Inputs: the products of the catalog and of the webhook deliveries *)

\* product.tags "sale, All-Jumpers": the second tag is in the category list
TagsMatching == <<"s", "a", "l", "e", ",", " ", "A", "l", "l", "-", "J", "u", "m", "p", "e", "r", "s">>
\* product.tags "sale": no tag of the category list
TagsOther == <<"s", "a", "l", "e">>
\* product.tags "Sale,all-jumpers-xl , Jumpers": near misses only
TagsNearMiss == <<"S", "a", "l", "e", ",", "a", "l", "l", "-", "j", "u", "m", "p", "e", "r", "s", "-", "x", "l", " ", ",", " ", "J", "u", "m", "p", "e", "r", "s">>

\* variant.barcode of a variant without barcode (null or "")
NoBarcode == <<>>
\* a barcode some variant already carries: "2000000010007"
UsedCode == <<2, 0, 0, 0, 0, 0, 0, 0, 1, 0, 0, 0, 7>>

\* product.body_html: missing, blank, present
NoBody == <<>>
BlankBody == <<" ">>
SomeBody == <<"<", "p", ">">>

TagChoices == {TagsMatching, TagsNearMiss}
BarcodeLists == {<<NoBarcode, NoBarcode>>, <<UsedCode, NoBarcode>>, <<UsedCode>>}

\* what a product looks like, apart from its ids
BarraShapes == [tags : TagChoices, body_html : {NoBody, SomeBody},
                barcodes : BarcodeLists]
DescShapes == [tags : TagChoices, body_html : {NoBody, SomeBody},
               barcodes : {<<UsedCode>>}]
WebhookShapes == [tags : TagChoices, body_html : {NoBody, BlankBody, SomeBody},
                  barcodes : BarcodeLists]
FillerShape == [tags |-> TagsOther, body_html |-> SomeBody,
                barcodes |-> <<UsedCode>>]

\* ids of the p-th product (0-based) and of its v-th variant: the product ids
\* of a store agree in their last six digits here
ProductIdAt(p) == (p + 1) * 1000000 + 1
VariantIdAt(p, v) == (p + 1) * 10 + v

MkProduct(p, shape) ==
    [id |-> ProductIdAt(p),
     tags |-> shape.tags,
     body_html |-> shape.body_html,
     variants |-> [v \in 1..Len(shape.barcodes) |->
                      [id |-> VariantIdAt(p, v - 1), barcode |-> shape.barcodes[v]]]]

MkCatalog(shapes) == [p \in 1..Len(shapes) |-> MkProduct(p - 1, shapes[p])]

ShapeLists(S) == UNION {[1..n -> S] : n \in 0..MaxProducts}
Fillers == [p \in 1..FillerCount |-> FillerShape]

\* a product of the barcode script whose first variant has no barcode and
\* whose n other variants carry the first n codes the script tries for it
CrowdedShape(n) ==
    [tags |-> TagsMatching, body_html |-> NoBody,
     barcodes |-> <<NoBarcode>>
                  \o [a \in 1..n |-> generateUniqueBarcode(ProductIdAt(0), a - 1)]]

\* the catalogs of one such product: all codes the script tries are taken, or
\* all but the last
CrowdedCatalogs ==
    {MkCatalog(<<CrowdedShape(n)>>) : n \in {maxAttempts - 1, maxAttempts}}

\* the catalogs of the batch runs: up to MaxProducts products of any shape, or
\* one product of any shape behind FillerCount products without category tag
Catalogs(S) ==
    {MkCatalog(l) : l \in ShapeLists(S)}
    \cup {MkCatalog(Fillers \o <<s>>) : s \in S}

-----------------------------------------------------------------------------
(* The commerce API: pages of the product list *)

NPages(cat) ==
    IF Len(cat) = 0 THEN 1 ELSE (Len(cat) + PageSize - 1) \div PageSize

\* data.products of page k
PageProducts(cat, k) ==
    SubSeq(cat, (k - 1) * PageSize + 1,
           IF k * PageSize < Len(cat) THEN k * PageSize ELSE Len(cat))

\* the link header of page k: its entries <url>; rel="..."
LinkHeader(cat, k) ==
    (IF k > 1 THEN <<[url |-> k - 1, rel |-> "previous"]>> ELSE <<>>)
    \o (IF k < NPages(cat) THEN <<[url |-> k + 1, rel |-> "next"]>> ELSE <<>>)

\* the url of the first entry of the header, whatever its rel
NextUrl_First(linkHeader) ==
    IF linkHeader # <<>> THEN linkHeader[1].url ELSE 0

\* linkHeader.includes('rel="next"'), then match(/<([^>]+)>; rel="next"/)[1];
\* 0 stands for null
NextUrl(linkHeader) ==
    IF \E k \in 1..Len(linkHeader) : linkHeader[k].rel = "next"
    THEN linkHeader[CHOOSE k \in 1..Len(linkHeader) :
                        /\ linkHeader[k].rel = "next"
                        /\ \A h \in 1..(k - 1) : linkHeader[h].rel # "next"].url
    ELSE 0

-----------------------------------------------------------------------------
(* shopifyFetch *)

\* what one fetch(url, options) can bring: an ok response, an ok response whose
\* body is no JSON, status 429, another non-ok status, or a rejection (network
\* failure)
Answers == {"ok", "badjson", "429", "error", "network"}

\* the API carried out the request
Accepts(ans) == ans \in {"ok", "badjson"}

NoCall == [kind |-> "none", retries |-> 0, i |-> 0, answers |-> <<>>,
           outcome |-> "none"]
NewCall(kind, retries) ==
    [kind |-> kind, retries |-> retries, i |-> 0, answers |-> <<>>,
     outcome |-> "pending"]

\* the batch helper with the catch block of the webhook helper
shopifyFetchBatch_RetryOnError(c, ans) ==
    LET c1 == [c EXCEPT !.answers = Append(@, ans)]
    IN  CASE ans = "429" ->
                IF c.i + 1 < c.retries
                THEN [c1 EXCEPT !.i = c.i + 1]
                ELSE [c1 EXCEPT !.i = c.i + 1, !.outcome = "throw"]
          [] ans \in {"error", "network"} ->
                IF c.i = c.retries - 1
                THEN [c1 EXCEPT !.outcome = "throw"]
                ELSE [c1 EXCEPT !.i = c.i + 1]
          [] OTHER -> [c1 EXCEPT !.outcome = "return"]

\* one iteration of the for loop of shopifyFetch in the batch scripts;
\* outcome: "pending" (loop goes on), "return" (res), "throw"
shopifyFetchBatch(c, ans) ==
    LET c1 == [c EXCEPT !.answers = Append(@, ans)]
    IN  CASE ans = "network" -> [c1 EXCEPT !.outcome = "throw"]
          [] ans = "429" ->
                IF c.i + 1 < c.retries
                THEN [c1 EXCEPT !.i = c.i + 1]
                ELSE [c1 EXCEPT !.i = c.i + 1, !.outcome = "throw"]
          [] ans = "error" -> [c1 EXCEPT !.outcome = "throw"]
          [] OTHER -> [c1 EXCEPT !.outcome = "return"]

\* one iteration of the for loop of shopifyFetch in the webhook function;
\* outcome "undefined": the loop ended and the function returned no value
shopifyFetchWebhook(c, ans) ==
    LET c1 == [c EXCEPT !.answers = Append(@, ans)]
    IN  CASE ans = "429" ->
                IF c.i + 1 < c.retries
                THEN [c1 EXCEPT !.i = c.i + 1]
                ELSE [c1 EXCEPT !.i = c.i + 1, !.outcome = "undefined"]
          [] ans \in {"error", "network"} ->
                IF c.i = c.retries - 1
                THEN [c1 EXCEPT !.outcome = "throw"]
                ELSE [c1 EXCEPT !.i = c.i + 1]
          [] OTHER -> [c1 EXCEPT !.outcome = "return"]

shopifyFetch(c, ans) ==
    IF script = "webhook" THEN shopifyFetchWebhook(c, ans)
    ELSE shopifyFetchBatch(c, ans)

Retries == IF script = "webhook" THEN WebhookRetries ELSE BatchRetries

\* await res.json() on the value a finished call returned throws: the body is
\* no JSON, or the value is undefined
JsonThrows(c) ==
    \/ c.outcome = "undefined"
    \/ c.outcome = "return" /\ c.answers[Len(c.answers)] = "badjson"

-----------------------------------------------------------------------------
(* The batch scripts: updateProducts *)

IsBatch == script \in {"barra", "desc"}

getExistingBarcodes(products) ==
    UNION {{products[p].variants[v].barcode :
               v \in {w \in 1..Len(products[p].variants) :
                         products[p].variants[w].barcode # NoBarcode}} :
           p \in 1..Len(products)}

\* the do-while without the test of existingBarcodes
DoWhile_Unchecked(existing, id, base, attempts) ==
    [newBarcode |-> generateUniqueBarcode(id, base + attempts),
     attempts |-> attempts + 1]

RECURSIVE DoWhile(_, _, _, _)
\* do { newBarcode = generateUniqueBarcode(id, base + attempts); attempts++ }
\* while (existingBarcodes.has(newBarcode) && attempts < maxAttempts)
DoWhile(existing, id, base, attempts) ==
    LET newBarcode == generateUniqueBarcode(id, base + attempts)
    IN  IF newBarcode \in existing /\ attempts + 1 < maxAttempts
        THEN DoWhile(existing, id, base, attempts + 1)
        ELSE [newBarcode |-> newBarcode, attempts |-> attempts + 1]

\* the test without the negation's operand: every variant gets a barcode
NeedsBarcode_Always(variant) == TRUE

\* !variant.barcode
NeedsBarcode(variant) == variant.barcode = NoBarcode

RECURSIVE VariantLoop(_, _, _, _)
\* the loop over product.variants of the barcode script, from variantIndex on;
\* acc = [existing, updatedVariants, barcodesGenerated]
VariantLoop(prod, pIndex, variantIndex, acc) ==
    IF variantIndex >= Len(prod.variants) THEN acc
    ELSE LET variant == prod.variants[variantIndex + 1]
             found == DoWhile(acc.existing, prod.id,
                              pIndex * 100 + variantIndex, 0)
         IN  IF ~NeedsBarcode(variant)
             THEN VariantLoop(prod, pIndex, variantIndex + 1, acc)
             ELSE IF found.attempts >= maxAttempts
             THEN VariantLoop(prod, pIndex, variantIndex + 1, acc)
             ELSE VariantLoop(prod, pIndex, variantIndex + 1,
                      [existing |-> acc.existing \cup {found.newBarcode},
                       updatedVariants |-> Append(acc.updatedVariants,
                           [id |-> variant.id, barcode |-> found.newBarcode]),
                       barcodesGenerated |-> acc.barcodesGenerated + 1])

\* the description template: a non-empty text built from the tag and the title
Description(prod, tag) == <<"<", "d", "i", "v", ">">> \o tag

\* the body of the PUT of a batch script: body_html is always set, variants
\* only when the list is not empty (an empty list stands for no field)
BatchPayload(prod, tag, variants) ==
    [id |-> prod.id, hasBody |-> TRUE, body_html |-> Description(prod, tag),
     variants |-> variants]

Request(method, kind, target, payload) ==
    [method |-> method, kind |-> kind, target |-> target, payload |-> payload]

NoPayload == [id |-> 0, hasBody |-> FALSE, body_html |-> <<>>, variants |-> <<>>]

CurrentProduct == allProducts[productIndex + 1]

BatchFrame == <<script, catalog, product, delivered, variantPos,
                variantsUpdated, answer, assigned, event, accepted, gen>>

\* updateProducts up to the first request of fetchAllProducts
Start ==
    /\ IsBatch /\ pc = "start"
    /\ url' = 1
    /\ allProducts' = <<>>
    /\ call' = NewCall("page", Retries)
    /\ requests' = Append(requests, Request("GET", "page", 1, NoPayload))
    /\ pc' = "page"
    /\ UNCHANGED <<existingBarcodes, productIndex, updatedVariants, updated,
                   barcodesGenerated, failedPuts, stopCause>>
    /\ UNCHANGED BatchFrame

\* one fetch of the shopifyFetch call in progress, with the server's answer
ShopifyFetchAttempt ==
    /\ call.outcome = "pending"
    /\ \E ans \in Answers :
          /\ call' = shopifyFetch(call, ans)
          /\ accepted' = IF Accepts(ans) THEN accepted \cup {Len(requests)}
                         ELSE accepted
    /\ UNCHANGED <<script, catalog, pc, url, allProducts, existingBarcodes,
                   productIndex, updatedVariants, updated, barcodesGenerated,
                   requests, failedPuts, stopCause, product, delivered,
                   variantPos, variantsUpdated, answer, assigned, event, gen>>

\* fetchAllProducts with a catch around the page request that ends the
\* pagination: the run goes on with the pages fetched so far
AfterPage_KeepsFetchedPages ==
    /\ IsBatch /\ pc = "page" /\ call.outcome \in {"return", "throw"}
    /\ LET failed == call.outcome = "throw" \/ JsonThrows(call)
           all == IF failed THEN allProducts
                  ELSE allProducts \o PageProducts(catalog, url)
           next == IF failed THEN 0 ELSE NextUrl(LinkHeader(catalog, url))
       IN  /\ allProducts' = all
           /\ url' = next
           /\ IF next # 0
              THEN /\ call' = NewCall("page", Retries)
                   /\ requests' = Append(requests,
                          Request("GET", "page", next, NoPayload))
                   /\ pc' = "page"
                   /\ UNCHANGED <<existingBarcodes, productIndex>>
              ELSE /\ call' = NoCall
                   /\ existingBarcodes' =
                          IF script = "barra" THEN getExistingBarcodes(all)
                          ELSE {}
                   /\ productIndex' = 0
                   /\ pc' = "loop"
                   /\ UNCHANGED requests
           /\ UNCHANGED stopCause
    /\ UNCHANGED <<updatedVariants, updated, barcodesGenerated, failedPuts>>
    /\ UNCHANGED BatchFrame

\* fetchAllProducts after a page request: collect the page and follow the link,
\* or return to updateProducts, which builds the set of existing barcodes
AfterPage ==
    /\ IsBatch /\ pc = "page" /\ call.outcome \in {"return", "throw"}
    /\ IF call.outcome = "throw" \/ JsonThrows(call)
       THEN /\ pc' = "aborted"
            /\ stopCause' = "fetch"
            /\ call' = NoCall
            /\ UNCHANGED <<url, allProducts, existingBarcodes, productIndex,
                           requests>>
       ELSE LET all == allProducts \o PageProducts(catalog, url)
                next == NextUrl(LinkHeader(catalog, url))
            IN  /\ allProducts' = all
                /\ url' = next
                /\ IF next # 0
                   THEN /\ call' = NewCall("page", Retries)
                        /\ requests' = Append(requests,
                               Request("GET", "page", next, NoPayload))
                        /\ pc' = "page"
                        /\ UNCHANGED <<existingBarcodes, productIndex>>
                   ELSE /\ call' = NoCall
                        /\ existingBarcodes' =
                               IF script = "barra" THEN getExistingBarcodes(all)
                               ELSE {}
                        /\ productIndex' = 0
                        /\ pc' = "loop"
                        /\ UNCHANGED requests
                /\ UNCHANGED stopCause
    /\ UNCHANGED <<updatedVariants, updated, barcodesGenerated, failedPuts>>
    /\ UNCHANGED BatchFrame

\* the head of the loop over the products: end of the run, a product without
\* category tag (continue), or the request of the product's metafields
LoopStep ==
    /\ IsBatch /\ pc = "loop"
    /\ IF productIndex >= Len(allProducts)
       THEN /\ pc' = "done"
            /\ stopCause' = "completed"
            /\ UNCHANGED <<productIndex, call, requests>>
       ELSE IF tagMatch(CurrentProduct.tags, BatchCategories) = <<>>
       THEN /\ productIndex' = productIndex + 1
            /\ UNCHANGED <<pc, stopCause, call, requests>>
       ELSE /\ call' = NewCall("meta", Retries)
            /\ requests' = Append(requests,
                   Request("GET", "meta", CurrentProduct.id, NoPayload))
            /\ pc' = "meta"
            /\ UNCHANGED <<productIndex, stopCause>>
    /\ UNCHANGED <<url, allProducts, existingBarcodes, updatedVariants, updated,
                   barcodesGenerated, failedPuts>>
    /\ UNCHANGED BatchFrame

\* after the metafields request: its failure reaches the outer catch; otherwise
\* the barcodes are generated, the payload is built and the PUT is issued
AfterMeta ==
    /\ IsBatch /\ pc = "meta" /\ call.outcome \in {"return", "throw"}
    /\ IF call.outcome = "throw" \/ JsonThrows(call)
       THEN /\ pc' = "aborted"
            /\ stopCause' = "metafields"
            /\ call' = NoCall
            /\ UNCHANGED <<existingBarcodes, updatedVariants, barcodesGenerated,
                           requests>>
       ELSE LET tag == tagMatch(CurrentProduct.tags, BatchCategories)
                acc == IF script = "barra"
                       THEN VariantLoop(CurrentProduct, productIndex, 0,
                                [existing |-> existingBarcodes,
                                 updatedVariants |-> <<>>,
                                 barcodesGenerated |-> barcodesGenerated])
                       ELSE [existing |-> existingBarcodes,
                             updatedVariants |-> <<>>,
                             barcodesGenerated |-> barcodesGenerated]
            IN  /\ existingBarcodes' = acc.existing
                /\ updatedVariants' = acc.updatedVariants
                /\ barcodesGenerated' = acc.barcodesGenerated
                /\ call' = NewCall("put", Retries)
                /\ requests' = Append(requests,
                       Request("PUT", "put", CurrentProduct.id,
                               BatchPayload(CurrentProduct, tag,
                                            acc.updatedVariants)))
                /\ pc' = "put"
                /\ UNCHANGED stopCause
    /\ UNCHANGED <<url, allProducts, productIndex, updated, failedPuts>>
    /\ UNCHANGED BatchFrame

\* the PUT without the inner try/catch: its failure reaches the outer catch
AfterPut_Rethrows ==
    /\ IsBatch /\ pc = "put" /\ call.outcome \in {"return", "throw"}
    /\ IF call.outcome = "return"
       THEN /\ updated' = Append(updated, CurrentProduct.id)
            /\ pc' = "sleep"
            /\ UNCHANGED <<failedPuts, stopCause>>
       ELSE /\ failedPuts' = failedPuts \cup {productIndex}
            /\ pc' = "aborted"
            /\ stopCause' = "put"
            /\ UNCHANGED updated
    /\ call' = NoCall
    /\ UNCHANGED <<url, allProducts, existingBarcodes, productIndex,
                   updatedVariants, barcodesGenerated, requests>>
    /\ UNCHANGED BatchFrame

\* the PUT whose catch block goes on to the next product without the pause
AfterPut_ContinueOnError ==
    /\ IsBatch /\ pc = "put" /\ call.outcome \in {"return", "throw"}
    /\ IF call.outcome = "return"
       THEN /\ updated' = Append(updated, CurrentProduct.id)
            /\ pc' = "sleep"
            /\ UNCHANGED <<failedPuts, productIndex>>
       ELSE /\ failedPuts' = failedPuts \cup {productIndex}
            /\ pc' = "loop"
            /\ productIndex' = productIndex + 1
            /\ UNCHANGED updated
    /\ call' = NoCall
    /\ UNCHANGED <<url, allProducts, existingBarcodes, updatedVariants,
                   barcodesGenerated, requests, stopCause>>
    /\ UNCHANGED BatchFrame

\* after the PUT: the inner try/catch
AfterPut ==
    /\ IsBatch /\ pc = "put" /\ call.outcome \in {"return", "throw"}
    /\ IF call.outcome = "return"
       THEN updated' = Append(updated, CurrentProduct.id)
            /\ UNCHANGED failedPuts
       ELSE failedPuts' = failedPuts \cup {productIndex}
            /\ UNCHANGED updated
    /\ call' = NoCall
    /\ pc' = "sleep"
    /\ UNCHANGED <<url, allProducts, existingBarcodes, productIndex,
                   updatedVariants, barcodesGenerated, requests, stopCause>>
    /\ UNCHANGED BatchFrame

\* the fixed pause of the script, in ms
SleepMs == IF script = "barra" THEN BarraSleepMs ELSE DescSleepMs

\* await sleep(...) at the end of the loop body, then productIndex++; the
\* elapsed pause is entered in the log of requests
Sleep ==
    /\ IsBatch /\ pc = "sleep"
    /\ productIndex' = productIndex + 1
    /\ pc' = "loop"
    /\ requests' = Append(requests, Request("SLEEP", "sleep", SleepMs, NoPayload))
    /\ UNCHANGED <<url, allProducts, existingBarcodes, updatedVariants, updated,
                   barcodesGenerated, call, failedPuts, stopCause>>
    /\ UNCHANGED BatchFrame

-----------------------------------------------------------------------------
(* The webhook function: exports.handler and processNewProduct *)

\* the base64 HMAC-SHA256 of a body under the configured secret
Hmac(body) == <<"hmac", body>>

verifyWebhook(data, hmacHeader) == Hmac(data) = hmacHeader

NoHeader == <<>>

\* event.body: the JSON of a product, JSON without an id, or no JSON at all
Bodies == [kind : {"product"}, shape : WebhookShapes]
          \cup [kind : {"noid", "garbage"}, shape : {FillerShape}]

Events == [httpMethod : {"POST", "GET"}, secret : BOOLEAN, body : Bodies,
           hmac : {"none", "good", "bad"}]

HmacHeader(ev) ==
    CASE ev.hmac = "none" -> NoHeader
      [] ev.hmac = "good" -> Hmac(ev.body)
      [] OTHER -> Hmac([kind |-> "tampered", shape |-> ev.body.shape])

\* the forEach without its test: every variant gets a generated barcode
MissingBarcode_Always(variant) == TRUE

\* !variant.barcode
MissingBarcode(variant) == variant.barcode = NoBarcode

RECURSIVE WebhookVariants(_, _)
\* product.variants.forEach((variant, index) => ...), from index on
WebhookVariants(prod, index) ==
    IF index >= Len(prod.variants) THEN <<>>
    ELSE LET variant == prod.variants[index + 1]
         IN  IF MissingBarcode(variant)
             THEN <<[id |-> variant.id,
                     barcode |-> generateUniqueBarcode(prod.id, index),
                     index |-> index]>>
                  \o WebhookVariants(prod, index + 1)
             ELSE WebhookVariants(prod, index + 1)

generateProductDescription(prod) ==
    LET tag == tagMatch(prod.tags, WebhookCategories)
    IN  IF tag = <<>> THEN <<"<", "d", "i", "v", ">">>
        ELSE <<"<", "d", "i", "v", ">">> \o tag

\* the test without its trim() half: a blank description counts as present
DescriptionMissing_Strict(prod) == prod.body_html = <<>>

\* !product.body_html || product.body_html.trim() === ''
DescriptionMissing(prod) ==
    prod.body_html = <<>> \/ trim(prod.body_html) = <<>>

WebhookPayload(prod, variants) ==
    [id |-> prod.id,
     hasBody |-> DescriptionMissing(prod),
     body_html |-> IF DescriptionMissing(prod)
                   THEN generateProductDescription(prod) ELSE <<>>,
     variants |-> [k \in 1..Len(variants) |->
                      [id |-> variants[k].id, barcode |-> variants[k].barcode]]]

NoAnswer == [statusCode |-> 0, success |-> FALSE, changes |-> FALSE,
             barcodesGenerated |-> 0, descriptionAdded |-> FALSE,
             partial |-> FALSE]
Reject(code) == [NoAnswer EXCEPT !.statusCode = code]
\* the 200 answer built from the result of processNewProduct
Ok200(success, changes, generated, description, partial) ==
    [statusCode |-> 200, success |-> success, changes |-> changes,
     barcodesGenerated |-> generated, descriptionAdded |-> description,
     partial |-> partial]

NoProduct == [id |-> 0, tags |-> <<>>, body_html |-> <<>>, variants |-> <<>>]

\* what the properties need of the event of the delivery being handled
NoEvent == [httpMethod |-> "none", secret |-> FALSE, hmac |-> "none",
            kind |-> "none"]
EventSummary(ev) ==
    [httpMethod |-> ev.httpMethod, secret |-> ev.secret, hmac |-> ev.hmac,
     kind |-> ev.body.kind]

WebhookFrame == <<script, catalog, url, allProducts, existingBarcodes,
                  productIndex, updated, failedPuts, stopCause, gen>>

\* exports.handler up to its first await: the checks of the event, and
\* processNewProduct up to the PUT of the product
Deliver ==
    /\ script = "webhook" /\ pc = "idle" /\ delivered < MaxDeliveries
    /\ \E ev \in Events :
         LET prod == MkProduct(delivered, ev.body.shape)
             variants == WebhookVariants(prod, 0)
             payload == WebhookPayload(prod, variants)
             rejected ==
                 CASE ev.httpMethod # "POST" -> 405
                   [] ev.secret /\ HmacHeader(ev) # NoHeader
                      /\ ~verifyWebhook(ev.body, HmacHeader(ev)) -> 401
                   [] ev.body.kind = "garbage" -> 500
                   [] ev.body.kind = "noid" -> 400
                   [] OTHER -> 0
         IN  /\ delivered' = delivered + 1
             /\ event' = EventSummary(ev)
             /\ requests' = IF rejected = 0 /\ (payload.hasBody \/ variants # <<>>)
                            THEN <<Request("PUT", "put", prod.id, payload)>>
                            ELSE <<>>
             /\ IF rejected # 0
                THEN /\ answer' = Reject(rejected)
                     /\ product' = NoProduct
                     /\ updatedVariants' = <<>>
                     /\ barcodesGenerated' = 0
                     /\ pc' = "answered"
                     /\ UNCHANGED <<call, assigned>>
                ELSE /\ product' = prod
                     /\ updatedVariants' = payload.variants
                     /\ barcodesGenerated' = Len(variants)
                     /\ assigned' = assigned \cup
                            {<<prod.id, variants[k].index, variants[k].barcode>> :
                                k \in 1..Len(variants)}
                     /\ IF ~payload.hasBody /\ variants = <<>>
                        THEN /\ answer' = Ok200(TRUE, FALSE, 0, FALSE, FALSE)
                             /\ pc' = "answered"
                             /\ UNCHANGED call
                        ELSE /\ answer' = NoAnswer
                             /\ call' = NewCall("put", Retries)
                             /\ pc' = "wput"
    /\ variantPos' = 0
    /\ variantsUpdated' = 0
    /\ accepted' = {}
    /\ UNCHANGED WebhookFrame

\* the single-variant PUT of the fallback loop for position k, 1-based
VariantRequest(k) ==
    Request("PUT", "vput", updatedVariants[k].id,
            [id |-> updatedVariants[k].id, hasBody |-> FALSE, body_html |-> <<>>,
             variants |-> <<updatedVariants[k]>>])

\* processNewProduct after the PUT of the product: the result, or the catch
\* block, which starts the loop of single-variant PUTs or rethrows
AfterWebhookPut ==
    /\ script = "webhook" /\ pc = "wput"
    /\ call.outcome \in {"return", "undefined", "throw"}
    /\ IF call.outcome = "return" /\ ~JsonThrows(call)
       THEN /\ answer' = Ok200(TRUE, TRUE, barcodesGenerated,
                               requests[1].payload.hasBody, FALSE)
            /\ pc' = "answered"
            /\ call' = NoCall
            /\ UNCHANGED <<requests, variantPos>>
       ELSE IF updatedVariants # <<>>
       THEN /\ variantPos' = 1
            /\ call' = NewCall("vput", Retries)
            /\ requests' = Append(requests, VariantRequest(1))
            /\ pc' = "vput"
            /\ UNCHANGED answer
       ELSE /\ answer' = Reject(500)
            /\ pc' = "answered"
            /\ call' = NoCall
            /\ UNCHANGED <<requests, variantPos>>
    /\ UNCHANGED <<product, delivered, updatedVariants, barcodesGenerated,
                   variantsUpdated, assigned, event, accepted>>
    /\ UNCHANGED WebhookFrame

\* the fallback loop after one single-variant PUT
AfterVariantPut ==
    /\ script = "webhook" /\ pc = "vput"
    /\ call.outcome \in {"return", "undefined", "throw"}
    /\ LET n == IF call.outcome = "throw" THEN variantsUpdated
                ELSE variantsUpdated + 1
       IN  /\ variantsUpdated' = n
           /\ IF variantPos < Len(updatedVariants)
              THEN /\ variantPos' = variantPos + 1
                   /\ call' = NewCall("vput", Retries)
                   /\ requests' = Append(requests, VariantRequest(variantPos + 1))
                   /\ UNCHANGED <<pc, answer>>
              ELSE /\ answer' = Ok200(n > 0, n > 0, n, FALSE, TRUE)
                   /\ pc' = "answered"
                   /\ call' = NoCall
                   /\ UNCHANGED <<requests, variantPos>>
    /\ UNCHANGED <<product, delivered, updatedVariants, barcodesGenerated,
                   assigned, event, accepted>>
    /\ UNCHANGED WebhookFrame

\* the handler has returned its answer: nothing of the invocation is kept
EndInvocation ==
    /\ script = "webhook" /\ pc = "answered"
    /\ pc' = "idle"
    /\ answer' = NoAnswer
    /\ product' = NoProduct
    /\ event' = NoEvent
    /\ requests' = <<>>
    /\ accepted' = {}
    /\ call' = NoCall
    /\ updatedVariants' = <<>>
    /\ barcodesGenerated' = 0
    /\ variantPos' = 0
    /\ variantsUpdated' = 0
    /\ UNCHANGED <<delivered, assigned>>
    /\ UNCHANGED WebhookFrame

-----------------------------------------------------------------------------
(* The generator on its own *)

GenIds == {0, 7, 123456, 999999, 1000000, 1000001, 2000001, 2147483647}
GenIndexes == 0..(10 ^ IndexDigits - 1)

NoGen == [productId |-> 0, index |-> 0, out |-> <<>>]

Generate ==
    /\ script = "generator" /\ gen.out = <<>>
    /\ gen' = [gen EXCEPT !.out = generateUniqueBarcode(gen.productId, gen.index)]
    /\ UNCHANGED <<script, catalog, pc, url, allProducts, existingBarcodes,
                   productIndex, updatedVariants, updated, barcodesGenerated,
                   call, requests, failedPuts, stopCause, product, delivered,
                   variantPos, variantsUpdated, answer, assigned, event,
                   accepted>>

-----------------------------------------------------------------------------
(* Specifications *)

InitRest ==
    /\ url = 0
    /\ allProducts = <<>>
    /\ existingBarcodes = {}
    /\ productIndex = 0
    /\ updatedVariants = <<>>
    /\ updated = <<>>
    /\ barcodesGenerated = 0
    /\ call = NoCall
    /\ requests = <<>>
    /\ failedPuts = {}
    /\ stopCause = "running"
    /\ product = NoProduct
    /\ delivered = 0
    /\ variantPos = 0
    /\ variantsUpdated = 0
    /\ answer = NoAnswer
    /\ assigned = {}
    /\ event = NoEvent
    /\ accepted = {}

Init ==
    /\ script \in {"barra", "desc", "webhook"}
    /\ catalog \in CASE script = "barra" ->
                          Catalogs(BarraShapes) \cup CrowdedCatalogs
                     [] script = "desc" -> Catalogs(DescShapes)
                     [] OTHER -> {<<>>}
    /\ pc = IF script = "webhook" THEN "idle" ELSE "start"
    /\ gen = NoGen
    /\ InitRest

Next ==
    \/ Start
    \/ ShopifyFetchAttempt
    \/ AfterPage
    \/ LoopStep
    \/ AfterMeta
    \/ AfterPut
    \/ Sleep
    \/ Deliver
    \/ AfterWebhookPut
    \/ AfterVariantPut
    \/ EndInvocation

Spec == Init /\ [][Next]_vars

InitGen ==
    /\ script = "generator"
    /\ catalog = <<>>
    /\ pc = "generator"
    /\ gen \in [productId : GenIds, index : GenIndexes, out : {<<>>}]
    /\ InitRest

NextGen == Generate

SpecGen == InitGen /\ [][NextGen]_vars

-----------------------------------------------------------------------------
(* Vocabulary of the properties *)

\* the requests that write: the PUT of a product and the PUT of one variant
Writes == {k \in 1..Len(requests) : requests[k].method = "PUT"}

\* the {id, barcode} entries of the k-th request
Entries(k) == requests[k].payload.variants

\* the products the running program was given
Inputs ==
    IF script = "webhook"
    THEN (IF product = NoProduct THEN {} ELSE {product})
    ELSE {catalog[p] : p \in 1..Len(catalog)}

InputVariants == UNION {{q.variants[v] : v \in 1..Len(q.variants)} : q \in Inputs}

IsDigits(b) == \A k \in 1..Len(b) : b[k] \in 0..9

\* 13 digits, the last one the mod-10 weighted check digit of the first 12
IsEAN13(b) ==
    /\ Len(b) = 13
    /\ IsDigits(b)
    /\ (b[1] + b[3] + b[5] + b[7] + b[9] + b[11]
        + 3 * (b[2] + b[4] + b[6] + b[8] + b[10] + b[12]) + b[13]) % 10 = 0

\* some comma-separated tag, trimmed and lower-cased, is in the category list
HasCategoryTag(q) ==
    \E k \in 1..Len(TagList(q.tags)) : includes(BatchCategories, TagList(q.tags)[k])

-----------------------------------------------------------------------------
(* Properties *)

\* C1: a shopifyFetch call whose every attempt, as many as its retry budget,
\* was answered 429 ends by throwing; it does not complete normally.
C1_ThrottledCallThrows ==
    (/\ call.kind # "none"
     /\ call.outcome # "pending"
     /\ Len(call.answers) = call.retries
     /\ \A k \in 1..Len(call.answers) : call.answers[k] = "429")
    => call.outcome = "throw"

\* C2: generateUniqueBarcode(productId, index), index in 0..999, is 13 decimal
\* digits: 200, the last 6 digits of productId, the index on 3 digits and a
\* check digit that makes the weighted sum a multiple of 10.
C2_BarcodeFormat ==
    gen.out # <<>> =>
        LET b == gen.out
        IN  /\ IsEAN13(b)
            /\ b[1] = 2 /\ b[2] = 0 /\ b[3] = 0
            /\ b[4] * 100000 + b[5] * 10000 + b[6] * 1000 + b[7] * 100
               + b[8] * 10 + b[9] = gen.productId % 1000000
            /\ b[10] * 100 + b[11] * 10 + b[12] = gen.index

C2_Witness ==
    /\ gen.out # <<>>
    /\ gen.productId = 2147483647
    /\ gen.index = 999

\* C3: every barcode the barcode script places in an update payload is a valid
\* EAN-13, whatever the position of the product in the fetched list.
C3_PayloadBarcodesAreEAN13 ==
    script = "barra" =>
        \A k \in Writes : \A e \in 1..Len(Entries(k)) : IsEAN13(Entries(k)[e].barcode)

\* C4: a failed PUT of a product is caught for that product: the product is
\* not counted as updated, the loop goes on to the next product, and the run
\* is never ended by the failed PUT.
C4_FailedPutIsCaught ==
    IsBatch =>
        \A i \in failedPuts :
            /\ \A k \in 1..Len(updated) : updated[k] # allProducts[i + 1].id
            /\ productIndex >= i
            /\ (productIndex = i => pc = "sleep")
            /\ (pc = "aborted" => stopCause = "metafields" /\ productIndex > i)
            /\ (pc = "done" =>
                  /\ productIndex = Len(allProducts)
                  /\ \A j \in (i + 2)..Len(allProducts) :
                        HasCategoryTag(allProducts[j]) =>
                            \E k \in Writes : requests[k].target = allProducts[j].id)

C4_Witness ==
    /\ IsBatch
    /\ pc = "done"
    /\ failedPuts = {0}
    /\ updated = <<ProductIdAt(1)>>

\* C5: every error raised while processing one product, the failure of the
\* metafields request included, is caught for that product alone: at the end
\* of a run whose product list was fetched, every product with a category tag
\* has been processed.
C5_EveryProductErrorIsCaught ==
    (IsBatch /\ pc \in {"done", "aborted"} /\ stopCause # "fetch") =>
        \A p \in 1..Len(allProducts) :
            HasCategoryTag(allProducts[p]) =>
                \E k \in 1..Len(requests) :
                    /\ requests[k].kind = "meta"
                    /\ requests[k].target = allProducts[p].id

\* C6: every barcode the barcode script places in a payload differs from every
\* barcode of the fetched catalog and from every barcode placed before it.
C6_PayloadBarcodesAreNew ==
    script = "barra" =>
        \A k \in Writes : \A e \in 1..Len(Entries(k)) :
            /\ \A v \in InputVariants : v.barcode # Entries(k)[e].barcode
            /\ \A k2 \in Writes : \A e2 \in 1..Len(Entries(k2)) :
                  (k2 < k \/ (k2 = k /\ e2 < e))
                  => Entries(k2)[e2].barcode # Entries(k)[e].barcode

\* two variants without barcode of the first product, whose first candidate a
\* variant of the catalog carries, and a second product after a failed PUT
C6_Witness ==
    /\ script = "barra"
    /\ pc = "done"
    /\ failedPuts = {0}
    /\ \E v \in InputVariants : v.barcode = UsedCode
    /\ \E k \in Writes :
          /\ requests[k].target = ProductIdAt(0)
          /\ Len(Entries(k)) = 2
          /\ Entries(k)[1].barcode = <<2, 0, 0, 0, 0, 0, 0, 0, 1, 0, 0, 1, 4>>
          /\ Entries(k)[2].barcode = <<2, 0, 0, 0, 0, 0, 0, 0, 1, 0, 0, 2, 1>>
    /\ \E k \in Writes : requests[k].target = ProductIdAt(1) /\ Len(Entries(k)) = 1

\* C7: generateUniqueBarcode returns different barcodes for different pairs
\* (productId, index): the codes of different webhook deliveries differ.
C7_DistinctPairsDistinctCodes ==
    \A a \in assigned : \A b \in assigned :
        (a[1] # b[1] \/ a[2] # b[2]) => a[3] # b[3]

\* C8: no payload of the barcode script or of the webhook function has an
\* entry for a variant whose barcode was set in the input.
C8_BarcodedVariantsNotWritten ==
    script \in {"barra", "webhook"} =>
        \A k \in Writes : \A e \in 1..Len(Entries(k)) : \A v \in InputVariants :
            v.id = Entries(k)[e].id => v.barcode = NoBarcode

C8_Witness ==
    /\ script = "barra"
    /\ \E k \in Writes : \E q \in Inputs :
          /\ q.id = requests[k].target
          /\ Len(q.variants) = 2
          /\ q.variants[1].barcode # NoBarcode
          /\ Len(Entries(k)) = 1
          /\ Entries(k)[1].id = q.variants[2].id

\* C9: for a product whose body_html is not empty no update payload has a
\* body_html field, in the batch scripts and in the webhook function.
C9_DescriptionOnlyWhenMissing ==
    \A k \in Writes : \A q \in Inputs :
        (q.id = requests[k].payload.id /\ trim(q.body_html) # <<>>)
        => ~requests[k].payload.hasBody

\* C10: in a batch run a product without category tag causes no request, and
\* no barcode is generated or reserved for it: every request of a product is
\* for a product with a category tag, and every reserved barcode is in the
\* payload of such a request.
C10_NoRequestWithoutCategoryTag ==
    IsBatch =>
        /\ \A k \in 1..Len(requests) : \A q \in Inputs :
              (requests[k].kind \in {"meta", "put"} /\ requests[k].target = q.id)
              => HasCategoryTag(q)
        /\ \A b \in existingBarcodes :
              \/ \E v \in InputVariants : v.barcode = b
              \/ \E k \in Writes : \E e \in 1..Len(Entries(k)) : Entries(k)[e].barcode = b
        /\ \A k \in 1..Len(requests) :
              requests[k].kind \in {"meta", "put"}
              => \E q \in Inputs : requests[k].target = q.id

C10_Witness ==
    /\ script = "barra"
    /\ pc = "done"
    /\ Len(catalog) = 2
    /\ ~HasCategoryTag(catalog[1])
    /\ \E v \in 1..Len(catalog[1].variants) : catalog[1].variants[v].barcode = NoBarcode
    /\ HasCategoryTag(catalog[2])
    /\ updated = <<catalog[2].id>>


\* the positions of the page requests in the log
PageRequests == {k \in 1..Len(requests) : requests[k].kind = "page"}

\* C11: fetchAllProducts requests the pages of the chain once each and in chain
\* order, stops at the page without rel="next", and returns the products of
\* all pages in page order.
C11_PagesFollowedInOrder ==
    IsBatch =>
        /\ \A k \in PageRequests : requests[k].target = k
        /\ Cardinality(PageRequests) <= NPages(catalog)
        /\ (pc = "page" =>
              /\ Cardinality(PageRequests) = url
              /\ allProducts = SubSeq(catalog, 1, (url - 1) * PageSize))
        /\ ((pc \notin {"start", "page"} /\ stopCause # "fetch") =>
              /\ Cardinality(PageRequests) = NPages(catalog)
              /\ allProducts = catalog)

C11_Witness ==
    /\ IsBatch
    /\ pc = "done"
    /\ NPages(catalog) > 2
    /\ Cardinality(PageRequests) = NPages(catalog)
    /\ allProducts = catalog


\* what a PUT of a product writes: the product, whether a description, and
\* the variants
WriteSummary(payload) ==
    [id |-> payload.id, hasBody |-> payload.hasBody,
     variantIds |-> [k \in 1..Len(payload.variants) |-> payload.variants[k].id]]

\* the result of the variants loop of a barcode-script run over the catalog
\* that contains only q
BatchVariantsFor(q) ==
    VariantLoop(q, 0, 0, [existing |-> getExistingBarcodes(<<q>>),
                          updatedVariants |-> <<>>,
                          barcodesGenerated |-> 0]).updatedVariants

\* the product writes of a barcode-script run over the catalog that contains
\* only q
BatchWritesFor(q) ==
    LET tag == tagMatch(q.tags, BatchCategories)
    IN  IF tag = <<>> THEN <<>>
        ELSE <<WriteSummary(BatchPayload(q, tag, BatchVariantsFor(q)))>>

\* the product writes of the webhook function for the delivery being handled
WebhookProductWrites ==
    IF requests = <<>> THEN <<>> ELSE <<WriteSummary(requests[1].payload)>>

\* C12 as stated: for any single product the webhook function writes what a
\* batch run over a catalog of only that product writes; a product without
\* category tag is written by neither.
C12_WebhookRepeatsBatch ==
    (script = "webhook" /\ product # NoProduct)
    => WebhookProductWrites = BatchWritesFor(product)

\* C12 amended: for a product with a category tag and no description (empty or
\* blank body_html) the product PUT of the webhook function writes the same
\* product, variants and description flag as a barcode-script run over a catalog
\* of only that product, when that run finds a code for each variant without
\* barcode; a product without category tag is written by the batch never.
C12_WebhookRepeatsBatchWhenIncomplete ==
    (script = "webhook" /\ product # NoProduct) =>
        /\ (/\ HasCategoryTag(product)
            /\ trim(product.body_html) = <<>>
            /\ Len(BatchVariantsFor(product))
               = Cardinality({v \in 1..Len(product.variants) :
                                 product.variants[v].barcode = NoBarcode}))
           => WebhookProductWrites = BatchWritesFor(product)
        /\ ~HasCategoryTag(product) => BatchWritesFor(product) = <<>>

C12_Witness ==
    /\ script = "webhook"
    /\ HasCategoryTag(product)
    /\ product.body_html = BlankBody
    /\ Len(product.variants) = 2
    /\ product.variants[1].barcode # NoBarcode
    /\ WebhookProductWrites = BatchWritesFor(product)
    /\ WebhookProductWrites[1].hasBody
    /\ Len(WebhookProductWrites[1].variantIds) = 1


\* C13: a batch run has one request outstanding at a time, and after the PUT
\* of a product, succeeded or failed, the fixed pause of the script (500 ms in
\* the barcode script, 300 ms in the description script) elapses before the
\* next request.
C13_PauseAfterEveryUpdate ==
    IsBatch =>
        /\ \A k \in 1..(Len(requests) - 1) :
              requests[k].kind = "put" =>
                  /\ requests[k + 1].kind = "sleep"
                  /\ requests[k + 1].target
                     = (IF script = "barra" THEN 500 ELSE 300)
        /\ call.outcome = "pending" => requests[Len(requests)].kind = call.kind
        /\ pc = "sleep" => (call = NoCall /\ requests[Len(requests)].kind = "put")

C13_Witness ==
    /\ script = "desc"
    /\ pc = "done"
    /\ failedPuts = {0}
    /\ updated = <<ProductIdAt(1)>>
    /\ Cardinality({k \in 1..Len(requests) :
                       requests[k].kind = "sleep" /\ requests[k].target = 300}) = 2


\* C14: with SHOPIFY_WEBHOOK_SECRET configured, a POST whose
\* x-shopify-hmac-sha256 header is absent or is not the HMAC of the body is
\* answered 401 and causes no request to the commerce API.
C14_EveryPostIsAuthenticated ==
    (/\ script = "webhook"
     /\ event.httpMethod = "POST"
     /\ event.secret
     /\ event.hmac # "good")
    => /\ requests = <<>>
       /\ pc = "answered" => answer.statusCode = 401


\* the k-th request of the running call was followed by a further request
Reissued(k) == k < Len(call.answers)

\* the k-th request of the running call was the last and ended it with an error
EndsWithError(k) == k = Len(call.answers) /\ call.outcome = "throw"

\* C15 as stated: in both helpers a request is re-issued only after a 429
\* answer, and any other non-ok answer ends the call with an error after that
\* request.
C15_ReissueOnlyAfter429 ==
    \A k \in 1..Len(call.answers) :
        /\ Reissued(k) => call.answers[k] = "429"
        /\ call.answers[k] \in {"error", "network"} => EndsWithError(k)

\* C15 amended: the helper of the batch scripts re-issues only after a 429 and
\* ends with an error on any other non-ok answer or network failure; the helper
\* of the webhook function re-issues after a 429 and after any other non-ok
\* answer or network failure alike while attempts remain, and ends with an
\* error only when its last attempt gets such an answer; neither re-issues
\* after an ok answer.
C15_ReissueAsEachHelperDoes ==
    \A k \in 1..Len(call.answers) :
        /\ Reissued(k) => ~Accepts(call.answers[k])
        /\ IsBatch =>
              /\ Reissued(k) => call.answers[k] = "429"
              /\ call.answers[k] \in {"error", "network"} => EndsWithError(k)
        /\ script = "webhook" =>
              /\ call.answers[k] \in {"error", "network"} =>
                    IF k = WebhookRetries THEN EndsWithError(k)
                    ELSE call.outcome = "pending" \/ Reissued(k)
              /\ EndsWithError(k) =>
                    k = WebhookRetries /\ call.answers[k] \in {"error", "network"}

\* a call of the webhook helper re-issued after a non-ok answer and after a
\* network failure and ended with the error of its last attempt
C15_Witness ==
    /\ script = "webhook"
    /\ call.outcome = "throw"
    /\ call.answers = <<"error", "network", "error">>


\* C16: a call of shopifyFetch issues at most `retries` requests, whatever the
\* answers, and when it completes normally the value it gives its caller is a
\* response with an ok status.
C16_AtMostRetriesAndOkOnReturn ==
    call.kind # "none" =>
        /\ Len(call.answers) <= call.retries
        /\ call.outcome \in {"return", "undefined"} =>
              /\ call.outcome = "return"
              /\ Accepts(call.answers[Len(call.answers)])


\* the single-variant PUTs of the invocation, and those the API carried out
VariantPuts == {k \in 1..Len(requests) : requests[k].kind = "vput"}
AcceptedVariantPuts == VariantPuts \cap accepted

\* the handler answered from the catch block of processNewProduct
FallbackAnswered ==
    /\ script = "webhook" /\ pc = "answered"
    /\ Len(requests) > 0
    /\ answer.statusCode = 500 \/ answer.partial

\* C17: after a failed product PUT with generated barcodes, each generated
\* barcode went out in its own single-variant PUT, in order, whatever became of
\* the PUTs before it, and the answer has partial = true, descriptionAdded =
\* false, barcodesGenerated = the number of variant PUTs that succeeded and
\* success = (that number > 0); with no generated barcode the answer is 500.
C17_FallbackCountsSucceededPuts ==
    FallbackAnswered =>
        IF updatedVariants = <<>>
        THEN answer.statusCode = 500 /\ VariantPuts = {}
        ELSE /\ VariantPuts = 2..(Len(updatedVariants) + 1)
             /\ \A k \in VariantPuts :
                   requests[k].payload.variants = <<updatedVariants[k - 1]>>
             /\ answer.statusCode = 200
             /\ answer.partial
             /\ ~answer.descriptionAdded
             /\ answer.barcodesGenerated = Cardinality(AcceptedVariantPuts)
             /\ answer.success = (Cardinality(AcceptedVariantPuts) > 0)


\* the ids of the variants whose barcode the API took during the invocation
AcceptedVariantIds ==
    UNION {{Entries(k)[e].id : e \in 1..Len(Entries(k))} : k \in accepted}

\* C18: when the answer of the handler reports descriptionAdded = false the
\* API has taken no body_html during the invocation, and the reported
\* barcodesGenerated is the number of variants whose barcode the API has taken.
C18_AnswerTellsWhatWasAccepted ==
    (/\ script = "webhook" /\ pc = "answered"
     /\ answer.statusCode = 200
     /\ ~answer.descriptionAdded)
    => /\ \A k \in accepted : ~requests[k].payload.hasBody
       /\ answer.barcodesGenerated = Cardinality(AcceptedVariantIds)


\* the product of the invocation lacks nothing: a description that is not
\* blank and a barcode on every variant
Complete(q) ==
    /\ trim(q.body_html) # <<>>
    /\ \A v \in 1..Len(q.variants) : q.variants[v].barcode # NoBarcode

\* C19 as stated: a product with a non-empty description and a barcode on every
\* variant causes no request, and the answer is 200 with success, no changes,
\* barcodesGenerated = 0 and descriptionAdded = false.
C19_NonEmptyDescriptionNoRequest ==
    (/\ script = "webhook" /\ product # NoProduct
     /\ product.body_html # <<>>
     /\ \A v \in 1..Len(product.variants) :
           product.variants[v].barcode # NoBarcode)
    => /\ requests = <<>>
       /\ pc = "answered"
       /\ answer = Ok200(TRUE, FALSE, 0, FALSE, FALSE)

\* C19 amended: a product whose description is not blank (something is left of
\* body_html after trim()) and whose variants all have a barcode causes no
\* request, and the answer is 200 with success, no changes, barcodesGenerated
\* = 0 and descriptionAdded = false.
C19_CompleteProductNoRequest ==
    (script = "webhook" /\ product # NoProduct /\ Complete(product))
    => /\ requests = <<>>
       /\ accepted = {}
       /\ pc = "answered"
       /\ answer = Ok200(TRUE, FALSE, 0, FALSE, FALSE)

\* a complete product with a category tag was delivered and answered
C19_Witness ==
    /\ script = "webhook" /\ pc = "answered"
    /\ event.httpMethod = "POST"
    /\ product # NoProduct
    /\ Complete(product)
    /\ product.body_html = SomeBody
    /\ Len(product.variants) = 1
    /\ answer.statusCode = 200


\* the codes the barcode script tries for the variant at position v (0-based)
\* of the product q at position p (0-based) of the catalog
Candidates(q, p, v) ==
    {generateUniqueBarcode(q.id, p * 100 + v + a) : a \in 0..(maxAttempts - 1)}

\* the set of used barcodes when the script comes to that variant, k being the
\* PUT of q: the barcodes of the catalog, those of the earlier PUTs and those
\* of the variants of q before it
UsedBefore(k, q, v) ==
    getExistingBarcodes(catalog)
    \cup UNION {{Entries(j)[e].barcode : e \in 1..Len(Entries(j))} :
                  j \in {i \in Writes : i < k}}
    \cup {Entries(k)[e].barcode :
              e \in {d \in 1..Len(Entries(k)) :
                        \E w \in 1..v : q.variants[w].id = Entries(k)[d].id}}

\* C20: in the barcode script a variant without barcode is left out of the
\* PUT of its product only if each of the 100 codes tried for it was already
\* in the set of used barcodes.
C20_SkippedOnlyWhenAllCandidatesUsed ==
    script = "barra" =>
        \A k \in Writes : \A p \in 0..(Len(catalog) - 1) :
            catalog[p + 1].id = requests[k].target =>
                \A v \in 0..(Len(catalog[p + 1].variants) - 1) :
                    LET q == catalog[p + 1]
                        variant == q.variants[v + 1]
                    IN  (/\ variant.barcode = NoBarcode
                         /\ \A e \in 1..Len(Entries(k)) :
                               Entries(k)[e].id # variant.id)
                        => Candidates(q, p, v) \subseteq UsedBefore(k, q, v)


\* C21: every invocation of the handler resolves with one answer: 405 when the
\* method is not POST, 401 on an HMAC mismatch, 400 when the body is not a
\* product with an id (a body that is no JSON included), 200 or 500 after
\* processing the product; 405, 401 and 400 are given without any request.
C21_OneAnswerPerInvocation ==
    script = "webhook" =>
        /\ pc \in {"wput", "vput"} => answer = NoAnswer
        /\ pc = "answered" =>
              LET mismatch == event.secret /\ event.hmac = "bad"
              IN  /\ answer.statusCode \in {405, 401, 400, 200, 500}
                  /\ answer.statusCode = 405 <=> event.httpMethod # "POST"
                  /\ answer.statusCode = 401 <=>
                        (event.httpMethod = "POST" /\ mismatch)
                  /\ answer.statusCode = 400 <=>
                        /\ event.httpMethod = "POST" /\ ~mismatch
                        /\ event.kind \in {"noid", "garbage"}
                  /\ answer.statusCode \in {405, 401, 400} => requests = <<>>


\* the pages whose request the API answered with their products
FetchedPages == {requests[k].target : k \in PageRequests \cap accepted}

\* the barcodes the run has placed in the payloads of its PUTs
PlacedBarcodes ==
    UNION {{Entries(k)[e].barcode : e \in 1..Len(Entries(k))} : k \in Writes}

\* C22: in a batch run every PUT comes after the successful fetch of every
\* page of the catalog; when the fetch of a page fails the run ends in the
\* general catch with no PUT issued; and the set of existing barcodes of the
\* barcode script holds the barcodes of the complete catalog (and those the
\* run has generated).
C22_NoWriteBeforeCatalogComplete ==
    IsBatch =>
        /\ \A k \in Writes : \A j \in 1..NPages(catalog) :
              \E r \in PageRequests \cap accepted :
                  r < k /\ requests[r].target = j
        /\ (call.kind = "page" \/ stopCause = "fetch") => Writes = {}
        /\ stopCause = "fetch" => pc = "aborted"
        /\ (pc \in {"loop", "meta", "put", "sleep", "done"}
            \/ (pc = "aborted" /\ stopCause # "fetch")) =>
              /\ FetchedPages = 1..NPages(catalog)
              /\ allProducts = catalog
              /\ script = "barra" =>
                    /\ getExistingBarcodes(catalog) \subseteq existingBarcodes
                    /\ existingBarcodes
                         \subseteq getExistingBarcodes(catalog) \cup PlacedBarcodes

\* the fetch of a page after the first failed in a run over a catalog whose
\* last product has a category tag and lacks a barcode: the run is over and no
\* PUT was issued
C22_Witness ==
    /\ script = "barra"
    /\ pc = "aborted" /\ stopCause = "fetch"
    /\ Cardinality(PageRequests) >= 2
    /\ FetchedPages = 1..(Cardinality(PageRequests) - 1)
    /\ HasCategoryTag(catalog[Len(catalog)])
    /\ \E v \in 1..Len(catalog[Len(catalog)].variants) :
          catalog[Len(catalog)].variants[v].barcode = NoBarcode
    /\ Writes = {}

====
